---- MODULE Spec2Model ----
(***************************************************************************)
(* Model of the ambient-scribe API (src/frontend/api/index.ts): the Hono   *)
(* route handlers over the Prisma tables Clinician, Patient and Encounter. *)
(* Every handler is split at its `await`s on the database or on a remote   *)
(* service: between two awaits Node runs the handler without interruption, *)
(* at an await any other request may run.  A handler with a single         *)
(* database call is therefore one action.                                  *)
(***************************************************************************)
EXTENDS Integers, Sequences, FiniteSets, TLC

VARIABLES
    clinicians,   \* table Clinician: a set of rows, unique by id
    patients,     \* table Patient: a set of rows, unique by id
    encounters,   \* table Encounter: a sequence of rows, row i has id i
    now,          \* the wall clock read by `new Date()` and by the DB's now()
    inflight,     \* per client: the handler suspended at an await, or Idle
    response      \* the last HTTP response sent: its route and status code

vars == <<clinicians, patients, encounters, now, inflight, response>>

---------------------------------------------------------------------------
(* Bounds of the model *)

MaxEnc == 1
MaxTime == 1
MaxClients == 1

Clients == 1..MaxClients
EncIds == 1..MaxEnc

\* granularity of the model's clock: ticks in one calendar day
TicksPerDay == 2

\* bounds of the specification with several encounters and several clients
MaxEncMany == 2
MaxClientsMany == 2

ClientsMany == 1..MaxClientsMany
EncIdsMany == 1..MaxEncMany

---------------------------------------------------------------------------
(* Values.  A nullable column or an optional JSON member is a sequence of  *)
(* length at most one: Null is SQL NULL / JS null, Some(v) a value.        *)

Null == <<>>
Some(v) == <<v>>

\* JS truthiness of a string-or-null: `!x` holds of null and of ''
Falsy(o) == o = Null \/ o = Some("")

\* enum EncounterStatus, in declaration order
StatusOrder == <<"RECORDING", "PROCESSING", "REVIEW", "SIGNED">>
EncounterStatus == {StatusOrder[i] : i \in 1..Len(StatusOrder)}
Rank(s) == CHOOSE i \in 1..Len(StatusOrder) : StatusOrder[i] = s

\* a display name is the sequence of its characters
DrGregoryHouse ==
    <<"D","r","."," ","G","r","e","g","o","r","y"," ","H","o","u","s","e">>
UnknownPatient ==
    <<"U","n","k","n","o","w","n"," ","P","a","t","i","e","n","t">>
DemoClinician == "demo-clinician"

Idle == [op |-> "idle"]
NoResponse == [op |-> "none", code |-> 0]

Has(body, k) == k \in DOMAIN body

---------------------------------------------------------------------------
(* Inputs: the request bodies the clients send *)

JohnSmith == <<"J","o","h","n"," ","S","m","i","t","h">>
NewPatient == <<"N","e","w"," ","P","a","t","i","e","n","t">>

CreateBodies ==
    { [patientId |-> "p1", patientName |-> NewPatient],
      [patientId |-> "p1", patientName |-> JohnSmith, patientMRN |-> "mrn1"],
      [patientId |-> "p2", clinicianId |-> "c2", patientName |-> JohnSmith],
      [patientId |-> ""],
      [clinicianId |-> "c2"] }

\* the first two are what the front end sends after transcription
\* (page.tsx:184-191), the others are direct calls of the endpoint
PatchBodies ==
    { [transcript |-> Some("t1"), status |-> "PROCESSING"],
      [transcript |-> Some(""), status |-> "PROCESSING"],
      [transcript |-> Some("t2")],
      [status |-> "RECORDING"],
      [status |-> "SIGNED"],
      [status |-> "ARCHIVED"],
      [soapSubjective |-> Some("s2")],
      [patientId |-> "p2", clinicianId |-> "c2"] }

\* Attach Transcript: a PATCH that carries a transcript; the front end sends
\* it together with status PROCESSING (page.tsx:184-191)
AttachBodies == {b \in PatchBodies : Has(b, "transcript")}
FrontEndAttachBodies ==
    {b \in AttachBodies : Has(b, "status") /\ b.status = "PROCESSING"}

\* what the note-generation service answers when it answers 2xx
AiResults ==
    { [soap |-> [subjective |-> "s1", objective |-> "o1",
                 assessment |-> "a1", plan |-> "p1"],
       icd10_codes |-> <<"J00", "R05">>] }

\* the resource ids the document server hands out
FhirIds == {"b1"}

---------------------------------------------------------------------------
(* The record store (Prisma) *)

\* prisma.<table>.findUnique({ where: { id } }) on a set of rows
FindUnique(table, id) ==
    IF \E r \in table : r.id = id
    THEN Some(CHOOSE r \in table : r.id = id)
    ELSE Null

\* prisma.encounter.findUnique({ where: { id } })
FindEncounter(id) ==
    IF id \in 1..Len(encounters) THEN Some(encounters[id]) ELSE Null

\* the row written by prisma.encounter.update: the columns named in `data`
\* replaced, the others kept
ApplyUpdate(row, data) ==
    [k \in DOMAIN row |-> IF k \in DOMAIN data THEN data[k] ELSE row[k]]

\* prisma.encounter.update({ where: { id }, data }) rejects a status that is
\* no member of the enum before it touches the database, and fails when there
\* is no row with this id
UpdateFails(id, data) ==
    \/ Has(data, "status") /\ data.status \notin EncounterStatus
    \/ id \notin 1..Len(encounters)

\* EncounterUpdate as an updateMany without the `where`: every row is written
EncounterUpdateEveryRow(id, data) ==
    [j \in DOMAIN encounters |-> ApplyUpdate(encounters[j], data)]

EncounterUpdate(id, data) ==
    [encounters EXCEPT ![id] = ApplyUpdate(encounters[id], data)]

\* NewEncounter with the clinician of the request ignored: every encounter is
\* filed under the default clinician
NewEncounterDefaultClinician(id, clinicianId, patientId) ==
    [ id |-> id,
      clinicianId |-> DemoClinician,
      patientId |-> patientId,
      status |-> "RECORDING",
      audioUrl |-> Null,
      transcript |-> Null,
      soapSubjective |-> Null,
      soapObjective |-> Null,
      soapAssessment |-> Null,
      soapPlan |-> Null,
      icd10Codes |-> <<>>,
      fhirBundleId |-> Null,
      encounterDate |-> now,
      signedAt |-> Null ]

\* prisma.encounter.create({ data: { clinicianId, patientId, status } }) with
\* the schema's defaults
NewEncounter(id, clinicianId, patientId) ==
    [ id |-> id,
      clinicianId |-> clinicianId,
      patientId |-> patientId,
      status |-> "RECORDING",
      audioUrl |-> Null,
      transcript |-> Null,
      soapSubjective |-> Null,
      soapObjective |-> Null,
      soapAssessment |-> Null,
      soapPlan |-> Null,
      icd10Codes |-> <<>>,
      fhirBundleId |-> Null,
      encounterDate |-> now,
      signedAt |-> Null ]

---------------------------------------------------------------------------
(* Initial state: empty tables, no request in flight *)

Init ==
    /\ clinicians = {}
    /\ patients = {}
    /\ encounters = <<>>
    /\ now = 0
    /\ inflight = [c \in Clients |-> Idle]
    /\ response = NoResponse

\* c.json(..., code) by the handler of route `op`
Respond(op, code) == response' = [op |-> op, code |-> code]

Suspend(c, req) == inflight' = [inflight EXCEPT ![c] = req]
Resume(c) == inflight' = [inflight EXCEPT ![c] = Idle]

\* time passes
Tick ==
    /\ now < MaxTime
    /\ now' = now + 1
    /\ UNCHANGED <<clinicians, patients, encounters, inflight, response>>

---------------------------------------------------------------------------
(* POST /api/encounters: find-or-create clinician and patient, then create *)
(* the encounter.  Five database calls, one action each.                   *)

\* `const { patientId, clinicianId = 'demo-clinician' } = body`
ClinicianIdOf(body) ==
    IF Has(body, "clinicianId") THEN body.clinicianId ELSE DemoClinician

\* the row of prisma.clinician.create
NewClinician(id) ==
    [id |-> id, name |-> DrGregoryHouse, specialty |-> Some("Internal Medicine")]

\* the row of prisma.patient.create
NewPatientRow(body) ==
    [ id |-> body.patientId,
      name |-> IF Has(body, "patientName") /\ body.patientName # <<>>
               THEN body.patientName ELSE UnknownPatient,
      dob |-> IF Has(body, "patientDob") THEN Some(body.patientDob) ELSE Null,
      mrn |-> IF Has(body, "patientMRN") THEN Some(body.patientMRN) ELSE Null ]

CreatesInFlight ==
    Cardinality({c \in DOMAIN inflight : inflight[c].op = "create"})

\* the request arrives; prisma.clinician.findUnique
CreateFindClinician(c, body) ==
    /\ inflight[c] = Idle
    /\ LET found == FindUnique(clinicians, ClinicianIdOf(body)) IN
       Suspend(c, [ op |-> "create", body |-> body, clinician |-> found,
                    patient |-> Null,
                    pc |-> IF found = Null THEN "insertClinician"
                                              ELSE "findPatient" ])
    /\ UNCHANGED <<clinicians, patients, encounters, now, response>>

\* prisma.clinician.create; the primary key rejects a second row with the id
CreateInsertClinician(c) ==
    /\ inflight[c].op = "create" /\ inflight[c].pc = "insertClinician"
    /\ LET row == NewClinician(ClinicianIdOf(inflight[c].body)) IN
       IF FindUnique(clinicians, row.id) # Null
       THEN /\ Respond("create", 500)
            /\ Resume(c)
            /\ UNCHANGED clinicians
       ELSE /\ clinicians' = clinicians \cup {row}
            /\ Suspend(c, [inflight[c] EXCEPT !.clinician = Some(row),
                                              !.pc = "findPatient"])
            /\ UNCHANGED response
    /\ UNCHANGED <<patients, encounters, now>>

\* prisma.patient.findUnique; a `where` without an id is rejected
CreateFindPatient(c) ==
    /\ inflight[c].op = "create" /\ inflight[c].pc = "findPatient"
    /\ LET body == inflight[c].body IN
       IF ~Has(body, "patientId")
       THEN /\ Respond("create", 500)
            /\ Resume(c)
       ELSE LET found == FindUnique(patients, body.patientId) IN
            /\ Suspend(c, [inflight[c] EXCEPT
                              !.patient = found,
                              !.pc = IF found = Null THEN "insertPatient"
                                                     ELSE "insertEncounter"])
            /\ UNCHANGED response
    /\ UNCHANGED <<clinicians, patients, encounters, now>>

\* CreateInsertPatient as an upsert: a row with the id is overwritten with
\* the attributes of the request
CreateInsertPatientUpsert(c) ==
    /\ inflight[c].op = "create" /\ inflight[c].pc = "insertPatient"
    /\ LET row == NewPatientRow(inflight[c].body) IN
       /\ patients' = {p \in patients : p.id # row.id} \cup {row}
       /\ Suspend(c, [inflight[c] EXCEPT !.patient = Some(row),
                                         !.pc = "insertEncounter"])
       /\ UNCHANGED response
    /\ UNCHANGED <<clinicians, encounters, now>>

\* prisma.patient.create
CreateInsertPatient(c) ==
    /\ inflight[c].op = "create" /\ inflight[c].pc = "insertPatient"
    /\ LET row == NewPatientRow(inflight[c].body) IN
       IF FindUnique(patients, row.id) # Null
       THEN /\ Respond("create", 500)
            /\ Resume(c)
            /\ UNCHANGED patients
       ELSE /\ patients' = patients \cup {row}
            /\ Suspend(c, [inflight[c] EXCEPT !.patient = Some(row),
                                              !.pc = "insertEncounter"])
            /\ UNCHANGED response
    /\ UNCHANGED <<clinicians, encounters, now>>

\* prisma.encounter.create and the 201 response
CreateInsertEncounter(c) ==
    /\ inflight[c].op = "create" /\ inflight[c].pc = "insertEncounter"
    /\ encounters' = Append(encounters,
                            NewEncounter(Len(encounters) + 1,
                                         inflight[c].clinician[1].id,
                                         inflight[c].patient[1].id))
    /\ Respond("create", 201)
    /\ Resume(c)
    /\ UNCHANGED <<clinicians, patients, now>>

---------------------------------------------------------------------------
(* PATCH /api/encounters/:id: one prisma.encounter.update *)

\* PatchUpdateData with the two references copied from the body as well
PatchUpdateDataWithReferences(body) ==
    LET keys ==
          {k \in {"status"} : Has(body, k) /\ body[k] # ""}
          \cup {k \in {"transcript", "audioUrl", "soapSubjective",
                       "soapObjective", "soapAssessment", "soapPlan",
                       "icd10Codes", "patientId", "clinicianId"} : Has(body, k)}
          \cup {k \in {"signedAt"} : Has(body, "status") /\ body.status = "SIGNED"}
    IN [k \in keys |-> IF k = "signedAt" THEN Some(now) ELSE body[k]]

\* the `updateData` the handler builds from the body
PatchUpdateData(body) ==
    LET keys ==
          {k \in {"status"} : Has(body, k) /\ body[k] # ""}
          \cup {k \in {"transcript", "audioUrl", "soapSubjective",
                       "soapObjective", "soapAssessment", "soapPlan",
                       "icd10Codes"} : Has(body, k)}
          \cup {k \in {"signedAt"} : Has(body, "status") /\ body.status = "SIGNED"}
    IN [k \in keys |-> IF k = "signedAt" THEN Some(now) ELSE body[k]]

\* the update and the response it leads to
PatchWrite(id, body) ==
    LET data == PatchUpdateData(body) IN
    IF UpdateFails(id, data)
    THEN /\ Respond("patch", 500)
         /\ UNCHANGED encounters
    ELSE /\ encounters' = EncounterUpdate(id, data)
         /\ Respond("patch", 200)

PatchEncounter(id, body) ==
    /\ PatchWrite(id, body)
    /\ UNCHANGED <<clinicians, patients, now, inflight>>

\* the same handler in two steps: the request is received and its body is
\* being read (`await c.req.json()`), then the update is built and written
PatchArrives(c, id, body) ==
    /\ inflight[c] = Idle
    /\ Suspend(c, [op |-> "patch", id |-> id, body |-> body])
    /\ UNCHANGED <<clinicians, patients, encounters, now, response>>

PatchCommits(c) ==
    /\ inflight[c].op = "patch"
    /\ PatchWrite(inflight[c].id, inflight[c].body)
    /\ Resume(c)
    /\ UNCHANGED <<clinicians, patients, now>>

---------------------------------------------------------------------------
(* POST /api/encounters/:id/generate-soap: read, call the AI service, write *)

\* GenerateSoapBegin with the transcript test narrowed from `!transcript`
\* to `transcript === null`: an empty transcript is sent to the AI service
GenerateSoapBeginNullTest(c, id) ==
    /\ inflight[c] = Idle
    /\ LET found == FindEncounter(id) IN
       IF found = Null
       THEN /\ Respond("generate-soap", 404)
            /\ UNCHANGED inflight
       ELSE IF found[1].transcript = Null
       THEN /\ Respond("generate-soap", 400)
            /\ UNCHANGED inflight
       ELSE /\ Suspend(c, [ op |-> "generate-soap", id |-> id,
                            transcript |-> found[1].transcript[1] ])
            /\ UNCHANGED response
    /\ UNCHANGED <<clinicians, patients, encounters, now>>

\* findUnique, the two early returns, and the fetch being sent
GenerateSoapBegin(c, id) ==
    /\ inflight[c] = Idle
    /\ LET found == FindEncounter(id) IN
       IF found = Null
       THEN /\ Respond("generate-soap", 404)
            /\ UNCHANGED inflight
       ELSE IF Falsy(found[1].transcript)
       THEN /\ Respond("generate-soap", 400)
            /\ UNCHANGED inflight
       ELSE /\ Suspend(c, [ op |-> "generate-soap", id |-> id,
                            transcript |-> found[1].transcript[1] ])
            /\ UNCHANGED response
    /\ UNCHANGED <<clinicians, patients, encounters, now>>

\* the `data` of the update that stores the note
SoapUpdateData(soapResult) ==
    [ status |-> "REVIEW",
      soapSubjective |-> Some(soapResult.soap.subjective),
      soapObjective |-> Some(soapResult.soap.objective),
      soapAssessment |-> Some(soapResult.soap.assessment),
      soapPlan |-> Some(soapResult.soap.plan),
      icd10Codes |-> soapResult.icd10_codes ]

\* the AI service answered 2xx with soapResult: update and 200
GenerateSoapFinish(c, soapResult) ==
    /\ inflight[c].op = "generate-soap"
    /\ LET id == inflight[c].id
           data == SoapUpdateData(soapResult) IN
       IF UpdateFails(id, data)
       THEN /\ Respond("generate-soap", 500)
            /\ UNCHANGED encounters
       ELSE /\ encounters' = EncounterUpdate(id, data)
            /\ Respond("generate-soap", 200)
    /\ Resume(c)
    /\ UNCHANGED <<clinicians, patients, now>>

\* GenerateSoapUpstreamError with the status advanced before the AI call is
\* known to have succeeded
GenerateSoapUpstreamErrorWritesStatus(c) ==
    /\ inflight[c].op = "generate-soap"
    /\ encounters' = EncounterUpdate(inflight[c].id, [status |-> "REVIEW"])
    /\ Respond("generate-soap", 500)
    /\ Resume(c)
    /\ UNCHANGED <<clinicians, patients, now>>

\* the fetch threw or the AI service answered non-2xx: the catch block
GenerateSoapUpstreamError(c) ==
    /\ inflight[c].op = "generate-soap"
    /\ Respond("generate-soap", 500)
    /\ Resume(c)
    /\ UNCHANGED <<clinicians, patients, encounters, now>>

---------------------------------------------------------------------------
(* POST /api/encounters/:id/sign: one prisma.encounter.update *)

SignUpdateData == [status |-> "SIGNED", signedAt |-> Some(now)]

SignEncounter(id) ==
    /\ IF UpdateFails(id, SignUpdateData)
       THEN /\ Respond("sign", 500)
            /\ UNCHANGED encounters
       ELSE /\ encounters' = EncounterUpdate(id, SignUpdateData)
            /\ Respond("sign", 200)
    /\ UNCHANGED <<clinicians, patients, now, inflight>>

---------------------------------------------------------------------------
(* The read-only routes *)

\* GET /api/encounters; findMany fails only with the database
ListEncounters ==
    /\ Respond("list", 200)
    /\ UNCHANGED <<clinicians, patients, encounters, now, inflight>>

\* GET /api/encounters/:id
GetEncounter(id) ==
    /\ Respond("get", IF FindEncounter(id) = Null THEN 404 ELSE 200)
    /\ UNCHANGED <<clinicians, patients, encounters, now, inflight>>

\* GET /api/encounters/:id/fhir; the body of the 200 is the bundle computed
\* from the row read, the tables are not written
GetFhir(id) ==
    /\ Respond("fhir", IF FindEncounter(id) = Null THEN 404 ELSE 200)
    /\ UNCHANGED <<clinicians, patients, encounters, now, inflight>>

---------------------------------------------------------------------------
(* POST /api/encounters/:id/fhir-export: read, post the bundle to the      *)
(* document server, store the id it returns                                *)

FhirExportBegin(c, id) ==
    /\ inflight[c] = Idle
    /\ IF FindEncounter(id) = Null
       THEN /\ Respond("fhir-export", 404)
            /\ UNCHANGED inflight
       ELSE /\ Suspend(c, [op |-> "fhir-export", id |-> id])
            /\ UNCHANGED response
    /\ UNCHANGED <<clinicians, patients, encounters, now>>

\* the document server answered 2xx with a resource whose id is fhirId
FhirExportFinish(c, fhirId) ==
    /\ inflight[c].op = "fhir-export"
    /\ LET id == inflight[c].id
           data == [fhirBundleId |-> Some(fhirId)] IN
       IF UpdateFails(id, data)
       THEN /\ Respond("fhir-export", 500)
            /\ UNCHANGED encounters
       ELSE /\ encounters' = EncounterUpdate(id, data)
            /\ Respond("fhir-export", 200)
    /\ Resume(c)
    /\ UNCHANGED <<clinicians, patients, now>>

\* FhirExportUpstreamError with the reference of an earlier export cleared
\* when the document server turns the bundle down
FhirExportUpstreamErrorClearsReference(c) ==
    /\ inflight[c].op = "fhir-export"
    /\ encounters' = EncounterUpdate(inflight[c].id, [fhirBundleId |-> Null])
    /\ Respond("fhir-export", 500)
    /\ Resume(c)
    /\ UNCHANGED <<clinicians, patients, now>>

\* the document server answered non-2xx, or the fetch threw
FhirExportUpstreamError(c) ==
    /\ inflight[c].op = "fhir-export"
    /\ Respond("fhir-export", 500)
    /\ Resume(c)
    /\ UNCHANGED <<clinicians, patients, encounters, now>>

---------------------------------------------------------------------------

\* a create request is accepted while the table has room for its encounter
CreateArrives(c, body) ==
    /\ Len(encounters) + CreatesInFlight < MaxEnc
    /\ CreateFindClinician(c, body)

Next ==
    \/ Tick
    \/ \E c \in Clients, body \in CreateBodies : CreateArrives(c, body)
    \/ \E c \in Clients : CreateInsertClinician(c)
    \/ \E c \in Clients : CreateFindPatient(c)
    \/ \E c \in Clients : CreateInsertPatient(c)
    \/ \E c \in Clients : CreateInsertEncounter(c)
    \/ \E id \in EncIds : SignEncounter(id)
    \/ \E id \in EncIds, body \in PatchBodies : PatchEncounter(id, body)
    \/ \E c \in Clients, id \in EncIds : GenerateSoapBegin(c, id)
    \/ \E c \in Clients, r \in AiResults : GenerateSoapFinish(c, r)
    \/ \E c \in Clients : GenerateSoapUpstreamError(c)
    \/ ListEncounters
    \/ \E id \in EncIds : GetEncounter(id)
    \/ \E id \in EncIds : GetFhir(id)
    \/ \E c \in Clients, id \in EncIds : FhirExportBegin(c, id)
    \/ \E c \in Clients, fhirId \in FhirIds : FhirExportFinish(c, fhirId)
    \/ \E c \in Clients : FhirExportUpstreamError(c)

Spec == Init /\ [][Next]_vars

---------------------------------------------------------------------------
(* Several encounters, several clients: creates that run next to each      *)
(* other and next to updates of the encounters that exist already.  The    *)
(* handlers are those of Spec, the requests are the well-formed creates,   *)
(* sign, and the PATCH the front end sends after transcription.            *)

CreateBodiesMany ==
    {b \in CreateBodies : Has(b, "patientId") /\ b.patientId # ""}

InitMany ==
    /\ clinicians = {}
    /\ patients = {}
    /\ encounters = <<>>
    /\ now = 0
    /\ inflight = [c \in ClientsMany |-> Idle]
    /\ response = NoResponse

CreateArrivesMany(c, body) ==
    /\ Len(encounters) + CreatesInFlight < MaxEncMany
    /\ CreateFindClinician(c, body)

NextMany ==
    \/ Tick
    \/ \E c \in ClientsMany, body \in CreateBodiesMany :
          CreateArrivesMany(c, body)
    \/ \E c \in ClientsMany : CreateInsertClinician(c)
    \/ \E c \in ClientsMany : CreateFindPatient(c)
    \/ \E c \in ClientsMany : CreateInsertPatient(c)
    \/ \E c \in ClientsMany : CreateInsertEncounter(c)
    \/ \E id \in EncIdsMany : SignEncounter(id)
    \/ \E id \in EncIdsMany, body \in FrontEndAttachBodies :
          PatchEncounter(id, body)

SpecMany == InitMany /\ [][NextMany]_vars

---------------------------------------------------------------------------
(* Two encounters, every route that is addressed to one encounter; the     *)
(* requests are two creates for different patients and clinicians, and the *)
(* PATCH the front end sends with a transcript.                            *)

CreateBodiesFrame == {b \in CreateBodiesMany : ~Has(b, "patientMRN")}

PatchBodiesFrame ==
    {b \in FrontEndAttachBodies : b.transcript # Some("")}

NextFrame ==
    \/ \E c \in Clients, body \in CreateBodiesFrame : CreateArrivesMany(c, body)
    \/ \E c \in Clients : CreateInsertClinician(c)
    \/ \E c \in Clients : CreateFindPatient(c)
    \/ \E c \in Clients : CreateInsertPatient(c)
    \/ \E c \in Clients : CreateInsertEncounter(c)
    \/ \E id \in EncIdsMany : SignEncounter(id)
    \/ \E id \in EncIdsMany, body \in PatchBodiesFrame : PatchEncounter(id, body)
    \/ \E c \in Clients, id \in EncIdsMany : GenerateSoapBegin(c, id)
    \/ \E c \in Clients, r \in AiResults : GenerateSoapFinish(c, r)
    \/ \E c \in Clients : GenerateSoapUpstreamError(c)
    \/ \E id \in EncIdsMany : GetFhir(id)
    \/ \E c \in Clients, id \in EncIdsMany : FhirExportBegin(c, id)
    \/ \E c \in Clients, fhirId \in FhirIds : FhirExportFinish(c, fhirId)
    \/ \E c \in Clients : FhirExportUpstreamError(c)

SpecFrame == Init /\ [][NextFrame]_vars

---------------------------------------------------------------------------
(* Attach Transcript racing with sign: the PATCH is taken in its two steps *)
(* and is sent for an encounter that is not signed when the request        *)
(* arrives, so that a write onto a signed encounter is a write that a sign *)
(* has overtaken.                                                          *)

AttachArrives(c, id, body) ==
    /\ FindEncounter(id) # Null
    /\ FindEncounter(id)[1].status # "SIGNED"
    /\ PatchArrives(c, id, body)

NextRace ==
    \/ Tick
    \/ \E c \in Clients, body \in CreateBodies : CreateArrives(c, body)
    \/ \E c \in Clients : CreateInsertClinician(c)
    \/ \E c \in Clients : CreateFindPatient(c)
    \/ \E c \in Clients : CreateInsertPatient(c)
    \/ \E c \in Clients : CreateInsertEncounter(c)
    \/ \E c \in Clients, id \in EncIds, body \in AttachBodies :
          AttachArrives(c, id, body)
    \/ \E c \in Clients : PatchCommits(c)
    \/ \E id \in EncIds : SignEncounter(id)

SpecRace == Init /\ [][NextRace]_vars

---------------------------------------------------------------------------
(* Attach Transcript overlapping generate-soap: the front end's PATCH may  *)
(* land while generate-soap waits for the AI service.                      *)

NextOverlap ==
    \/ Tick
    \/ \E c \in Clients, body \in CreateBodies : CreateArrives(c, body)
    \/ \E c \in Clients : CreateInsertClinician(c)
    \/ \E c \in Clients : CreateFindPatient(c)
    \/ \E c \in Clients : CreateInsertPatient(c)
    \/ \E c \in Clients : CreateInsertEncounter(c)
    \/ \E id \in EncIds, body \in FrontEndAttachBodies : PatchEncounter(id, body)
    \/ \E c \in Clients, id \in EncIds : GenerateSoapBegin(c, id)
    \/ \E c \in Clients, r \in AiResults : GenerateSoapFinish(c, r)
    \/ \E c \in Clients : GenerateSoapUpstreamError(c)

SpecOverlap == Init /\ [][NextOverlap]_vars

\* What the program itself guarantees to happen: a database call that was
\* issued returns, so a create in flight takes its next step.  Nothing in
\* the handler makes the fetch to the AI service return: it is issued
\* without a signal or timeout (index.ts:232-236), so neither an answer nor
\* an error of the AI service is fair.
FairOverlap ==
    /\ WF_vars(\E c \in Clients : CreateInsertClinician(c))
    /\ WF_vars(\E c \in Clients : CreateFindPatient(c))
    /\ WF_vars(\E c \in Clients : CreateInsertPatient(c))
    /\ WF_vars(\E c \in Clients : CreateInsertEncounter(c))

SpecOverlapFair == SpecOverlap /\ FairOverlap

\* the row a generate-soap that runs with no other request in between leaves
\* of row e when the AI service answers soapResult: the 400 of a falsy
\* transcript writes nothing
GenerateAlone(e, soapResult) ==
    IF Falsy(e.transcript) THEN e ELSE ApplyUpdate(e, SoapUpdateData(soapResult))

---------------------------------------------------------------------------
(* generateFhirBundle.  A JS string built by a template literal is the     *)
(* sequence of its pieces; a key whose value may be `undefined` holds Null *)
(* or Some(value) until the bundle is serialized.                          *)

\* `${a}${b}`
Template(a, b) == <<a, b>>

\* Date.prototype.toISOString: the date part and the time part
ToISOString(t) == <<t \div TicksPerDay, t % TicksPerDay>>

\* the date part of an ISO string: split('T')[0]
DatePart(iso) == iso[1]

\* String.prototype.split with a one-character separator
RECURSIVE Split(_, _)
Split(str, sep) ==
    IF \A i \in 1..Len(str) : str[i] # sep
    THEN <<str>>
    ELSE LET i == CHOOSE k \in 1..Len(str) :
                    str[k] = sep /\ \A j \in 1..(k - 1) : str[j] # sep
         IN <<SubSeq(str, 1, i - 1)>> \o Split(SubSeq(str, i + 1, Len(str)), sep)

\* Array.prototype.join
RECURSIVE Join(_, _)
Join(parts, sep) ==
    IF parts = <<>> THEN <<>>
    ELSE IF Len(parts) = 1 THEN parts[1]
    ELSE parts[1] \o <<sep>> \o Join(Tail(parts), sep)

\* Array.prototype.pop and slice(0, -1)
Pop(parts) == parts[Len(parts)]
SliceButLast(parts) == SubSeq(parts, 1, Len(parts) - 1)

\* name of the Patient resource
PatientName(name) ==
    [ use |-> "official",
      family |-> Pop(Split(name, " ")),
      given |-> <<Split(name, " ")[1]>> ]

\* PatientResource with the MRN tested for null only
PatientResourceMrnNotNull(patient) ==
    [ resourceType |-> "Patient",
      id |-> Template("patient-", patient.id),
      identifier |-> IF patient.mrn # Null
                     THEN << [ system |-> "http://hospital.example.org/mrn",
                               value |-> patient.mrn[1] ] >>
                     ELSE <<>>,
      name |-> <<PatientName(patient.name)>>,
      birthDate |-> IF patient.dob # Null
                    THEN Some(DatePart(ToISOString(patient.dob[1])))
                    ELSE Null ]

PatientResource(patient) ==
    [ resourceType |-> "Patient",
      id |-> Template("patient-", patient.id),
      identifier |-> IF ~Falsy(patient.mrn)
                     THEN << [ system |-> "http://hospital.example.org/mrn",
                               value |-> patient.mrn[1] ] >>
                     ELSE <<>>,
      name |-> <<PatientName(patient.name)>>,
      birthDate |-> IF patient.dob # Null
                    THEN Some(DatePart(ToISOString(patient.dob[1])))
                    ELSE Null ]

\* name of the Practitioner resource
PractitionerName(name) ==
    [ use |-> "official",
      family |-> Pop(Split(name, " ")),
      given |-> <<Join(SliceButLast(Split(name, " ")), " ")>>,
      prefix |-> <<"Dr.">> ]

PractitionerResource(clinician) ==
    [ resourceType |-> "Practitioner",
      id |-> Template("practitioner-", clinician.id),
      name |-> <<PractitionerName(clinician.name)>>,
      qualification |->
         IF ~Falsy(clinician.specialty)
         THEN << [ code |-> [ coding |-> <<
                     [ system |-> "http://terminology.hl7.org/CodeSystem/v2-0360",
                       code |-> "MD",
                       display |-> clinician.specialty[1] ] >> ] ] >>
         ELSE <<>> ]

\* FhirEncounterStatus with a note under review counted as finished
FhirEncounterStatusReviewFinished(status) ==
    IF status = "SIGNED" THEN "finished"
    ELSE IF status = "REVIEW" THEN "finished"
    ELSE IF status = "PROCESSING" THEN "in-progress"
    ELSE "in-progress"

\* status of the Encounter resource
FhirEncounterStatus(status) ==
    IF status = "SIGNED" THEN "finished"
    ELSE IF status = "REVIEW" THEN "in-progress"
    ELSE IF status = "PROCESSING" THEN "in-progress"
    ELSE "in-progress"

\* FhirPeriod with the start taken from the export time
FhirPeriodStartNow(encounter, nowIso) ==
    [ start |-> nowIso,
      end |-> IF encounter.signedAt # Null
              THEN ToISOString(encounter.signedAt[1])
              ELSE nowIso ]

\* FhirPeriod with the end always the export time
FhirPeriodEndNow(encounter, nowIso) ==
    [ start |-> ToISOString(encounter.encounterDate),
      end |-> nowIso ]

\* `encounter.signedAt?.toISOString() || now`: an ISO string is never empty
FhirPeriod(encounter, nowIso) ==
    [ start |-> ToISOString(encounter.encounterDate),
      end |-> IF encounter.signedAt # Null
              THEN ToISOString(encounter.signedAt[1])
              ELSE nowIso ]

\* FhirReasonCode with `: []` for `: undefined`
FhirReasonCodeEmptyArray(icd10Codes) ==
    IF Len(icd10Codes) > 0
    THEN Some(<< [ coding |->
                     [i \in 1..Len(icd10Codes) |->
                        [ system |-> "http://hl7.org/fhir/sid/icd-10-cm",
                          code |-> icd10Codes[i],
                          display |-> icd10Codes[i] ]] ] >>)
    ELSE Some(<<>>)

FhirReasonCode(icd10Codes) ==
    IF Len(icd10Codes) > 0
    THEN Some(<< [ coding |->
                     [i \in 1..Len(icd10Codes) |->
                        [ system |-> "http://hl7.org/fhir/sid/icd-10-cm",
                          code |-> icd10Codes[i],
                          display |-> icd10Codes[i] ]] ] >>)
    ELSE Null

\* EncounterResource whose subject is built from the practitioner's id
EncounterResourceSubjectPractitioner(encounter, nowIso) ==
    [ resourceType |-> "Encounter",
      id |-> Template("encounter-", encounter.id),
      status |-> FhirEncounterStatus(encounter.status),
      class |-> [ system |-> "http://terminology.hl7.org/CodeSystem/v3-ActCode",
                  code |-> "AMB",
                  display |-> "ambulatory" ],
      subject |-> [reference |->
                     Template("Patient/",
                              Template("practitioner-", encounter.clinician.id))],
      participant |-> << [individual |-> [reference |->
                     Template("Practitioner/",
                              Template("practitioner-", encounter.clinician.id))]] >>,
      period |-> FhirPeriod(encounter, nowIso),
      reasonCode |-> FhirReasonCode(encounter.icd10Codes) ]

EncounterResource(encounter, nowIso) ==
    [ resourceType |-> "Encounter",
      id |-> Template("encounter-", encounter.id),
      status |-> FhirEncounterStatus(encounter.status),
      class |-> [ system |-> "http://terminology.hl7.org/CodeSystem/v3-ActCode",
                  code |-> "AMB",
                  display |-> "ambulatory" ],
      subject |-> [reference |->
                     Template("Patient/", Template("patient-", encounter.patient.id))],
      participant |-> << [individual |-> [reference |->
                     Template("Practitioner/",
                              Template("practitioner-", encounter.clinician.id))]] >>,
      period |-> FhirPeriod(encounter, nowIso),
      reasonCode |-> FhirReasonCode(encounter.icd10Codes) ]

\* FhirSection with `??` for `||`: only null gives N/A
FhirSectionNullish(title, codeText, field) ==
    [ title |-> title,
      code |-> [text |-> codeText],
      text |-> [div |-> <<"<div>", IF field = Null THEN "N/A" ELSE field[1],
                         "</div>">>] ]

\* one section: `<div>${field || 'N/A'}</div>`
FhirSection(title, codeText, field) ==
    [ title |-> title,
      code |-> [text |-> codeText],
      text |-> [div |-> <<"<div>", IF Falsy(field) THEN "N/A" ELSE field[1],
                         "</div>">>] ]

FhirSections(encounter) ==
    << FhirSection("Subjective", "Patient symptoms and history",
                   encounter.soapSubjective),
       FhirSection("Objective", "Physical exam and vitals",
                   encounter.soapObjective),
       FhirSection("Assessment", "Diagnoses", encounter.soapAssessment),
       FhirSection("Plan", "Treatment plan", encounter.soapPlan) >>

CompositionResource(encounter, nowIso) ==
    [ resourceType |-> "Composition",
      id |-> Template("composition-", encounter.id),
      status |-> "final",
      type |-> [coding |-> << [ system |-> "http://loinc.org",
                                code |-> "34108-1",
                                display |-> "Outpatient Note" ] >>],
      subject |-> [reference |->
                     Template("Patient/", Template("patient-", encounter.patient.id))],
      date |-> nowIso,
      author |-> << [reference |->
                     Template("Practitioner/",
                              Template("practitioner-", encounter.clinician.id))] >>,
      encounter |-> [reference |->
                     Template("Encounter/", Template("encounter-", encounter.id))],
      section |-> FhirSections(encounter) ]

\* GenerateFhirBundle with the Practitioner entry in front of the Patient
GenerateFhirBundlePractitionerFirst(encounter, t) ==
    LET nowIso == ToISOString(t) IN
    [ resourceType |-> "Bundle",
      type |-> "collection",
      timestamp |-> nowIso,
      entry |-> << [resource |-> PractitionerResource(encounter.clinician)],
                   [resource |-> PatientResource(encounter.patient)],
                   [resource |-> EncounterResource(encounter, nowIso)],
                   [resource |-> CompositionResource(encounter, nowIso)] >> ]

\* generateFhirBundle, with `new Date()` read at time t
GenerateFhirBundle(encounter, t) ==
    LET nowIso == ToISOString(t) IN
    [ resourceType |-> "Bundle",
      type |-> "collection",
      timestamp |-> nowIso,
      entry |-> << [resource |-> PatientResource(encounter.patient)],
                   [resource |-> PractitionerResource(encounter.clinician)],
                   [resource |-> EncounterResource(encounter, nowIso)],
                   [resource |-> CompositionResource(encounter, nowIso)] >> ]

\* JSON.stringify, as c.json and the fetch body apply it: a key whose value
\* is undefined is left out
OptionalKeys == {"birthDate", "reasonCode"}

JsonResource(r) ==
    LET left == {k \in DOMAIN r \cap OptionalKeys : r[k] = Null} IN
    [k \in DOMAIN r \ left |-> IF k \in OptionalKeys THEN r[k][1] ELSE r[k]]

JsonBundle(bundle) ==
    [bundle EXCEPT !.entry =
        [i \in 1..Len(bundle.entry) |->
            [resource |-> JsonResource(bundle.entry[i].resource)]]]

\* findUnique({ where: { id }, include: { clinician: true, patient: true } })
WithRelations(e) ==
    [k \in DOMAIN e \cup {"clinician", "patient"} |->
        IF k = "clinician" THEN FindUnique(clinicians, e.clinicianId)[1]
        ELSE IF k = "patient" THEN FindUnique(patients, e.patientId)[1]
        ELSE e[k]]

\* GET /api/encounters/:id/fhir with the body of its response
GetFhirJson(id) ==
    /\ LET found == FindEncounter(id) IN
       response' =
          IF found = Null
          THEN [op |-> "fhir", code |-> 404]
          ELSE [op |-> "fhir", code |-> 200,
                body |-> JsonBundle(GenerateFhirBundle(WithRelations(found[1]),
                                                       now))]
    /\ UNCHANGED <<clinicians, patients, encounters, now, inflight>>

---------------------------------------------------------------------------
(* The exporter on its inputs: the tables hold one clinician, one patient  *)
(* and one encounter drawn from the sets below, and the bundle is fetched  *)
(* at one time and another.                                                *)

Cher == <<"C","h","e","r">>
House == <<"H","o","u","s","e">>

\* display names: two tokens, one token, and blanks in front, behind,
\* doubled, and a tab between the tokens
ExportPatientNames ==
    { JohnSmith, Cher, <<" ","A","l">>, <<"A","l"," ">>,
      <<"A"," "," ","B">>, <<"A","\t","B">> }

ExportPatients ==
    { [id |-> "p1", name |-> n, dob |-> Null, mrn |-> Null] :
         n \in ExportPatientNames }
    \cup { [id |-> "p1", name |-> JohnSmith, dob |-> Some(3), mrn |-> Some("mrn1")],
           [id |-> "p1", name |-> JohnSmith, dob |-> Null, mrn |-> Some("")] }

ExportClinicians ==
    { NewClinician(DemoClinician),
      [id |-> "c2", name |-> House, specialty |-> Null],
      [id |-> "c2", name |-> DrGregoryHouse, specialty |-> Some("")],
      [id |-> "c2", name |-> <<"D","r","."," "," ","X">>, specialty |-> Null],
      [id |-> "c2", name |-> <<"X"," ">>, specialty |-> Null] }

\* the note columns: no note, a whole note, and a partial note with an
\* empty field
ExportNotes ==
    { [soapSubjective |-> Null, soapObjective |-> Null,
       soapAssessment |-> Null, soapPlan |-> Null],
      [soapSubjective |-> Some("s1"), soapObjective |-> Some("o1"),
       soapAssessment |-> Some("a1"), soapPlan |-> Some("p1")],
      [soapSubjective |-> Some(""), soapObjective |-> Some("o1"),
       soapAssessment |-> Null, soapPlan |-> Null] }

ExportEncounters(clinicianId, patientId) ==
    { [ id |-> 1,
        clinicianId |-> clinicianId,
        patientId |-> patientId,
        status |-> st,
        audioUrl |-> Null,
        transcript |-> Null,
        soapSubjective |-> n.soapSubjective,
        soapObjective |-> n.soapObjective,
        soapAssessment |-> n.soapAssessment,
        soapPlan |-> n.soapPlan,
        icd10Codes |-> codes,
        fhirBundleId |-> Null,
        encounterDate |-> 0,
        signedAt |-> sg ] :
      st \in EncounterStatus, n \in ExportNotes,
      codes \in {<<>>, <<"J00", "R05">>}, sg \in {Null, Some(0)} }

InitExport ==
    /\ now = 0
    /\ \E d \in ExportClinicians, p \in ExportPatients :
          /\ clinicians = {d}
          /\ patients = {p}
          /\ \E e \in ExportEncounters(d.id, p.id) : encounters = <<e>>
    /\ inflight = [c \in Clients |-> Idle]
    /\ response = NoResponse

NextExport ==
    \/ Tick
    \/ \E id \in EncIds : GetFhirJson(id)

SpecExport == InitExport /\ [][NextExport]_vars

---------------------------------------------------------------------------
(* The generateFhirBundle of fhir.test.ts.  Its Patient and Practitioner   *)
(* entries are letter for letter those of index.ts and are the same        *)
(* operators here; its Encounter and Composition entries are its own.      *)

TestCopyEncounterStatus(status) ==
    IF status = "SIGNED" THEN "finished" ELSE "in-progress"

TestCopyEncounterResource(encounter, nowIso) ==
    [ resourceType |-> "Encounter",
      id |-> Template("encounter-", encounter.id),
      status |-> TestCopyEncounterStatus(encounter.status),
      class |-> [ system |-> "http://terminology.hl7.org/CodeSystem/v3-ActCode",
                  code |-> "AMB",
                  display |-> "ambulatory" ],
      subject |-> [reference |->
                     Template("Patient/", Template("patient-", encounter.patient.id))],
      participant |-> << [individual |-> [reference |->
                     Template("Practitioner/",
                              Template("practitioner-", encounter.clinician.id))]] >>,
      period |-> [ start |-> ToISOString(encounter.encounterDate),
                   end |-> IF encounter.signedAt # Null
                           THEN ToISOString(encounter.signedAt[1])
                           ELSE nowIso ] ]

TestCopySection(title, field) ==
    [ title |-> title,
      text |-> [div |-> <<"<div>", IF Falsy(field) THEN "N/A" ELSE field[1],
                         "</div>">>] ]

TestCopyCompositionResource(encounter, nowIso) ==
    [ resourceType |-> "Composition",
      id |-> Template("composition-", encounter.id),
      status |-> "final",
      type |-> [coding |-> << [ system |-> "http://loinc.org",
                                code |-> "34108-1",
                                display |-> "Outpatient Note" ] >>],
      subject |-> [reference |->
                     Template("Patient/", Template("patient-", encounter.patient.id))],
      date |-> nowIso,
      author |-> << [reference |->
                     Template("Practitioner/",
                              Template("practitioner-", encounter.clinician.id))] >>,
      encounter |-> [reference |->
                     Template("Encounter/", Template("encounter-", encounter.id))],
      section |-> << TestCopySection("Subjective", encounter.soapSubjective),
                     TestCopySection("Objective", encounter.soapObjective),
                     TestCopySection("Assessment", encounter.soapAssessment),
                     TestCopySection("Plan", encounter.soapPlan) >> ]

TestCopyGenerateFhirBundle(encounter, t) ==
    LET nowIso == ToISOString(t) IN
    [ resourceType |-> "Bundle",
      type |-> "collection",
      timestamp |-> nowIso,
      entry |-> << [resource |-> PatientResource(encounter.patient)],
                   [resource |-> PractitionerResource(encounter.clinician)],
                   [resource |-> TestCopyEncounterResource(encounter, nowIso)],
                   [resource |-> TestCopyCompositionResource(encounter, nowIso)] >> ]

---------------------------------------------------------------------------
(* GET /api/encounters with the body of its response *)

\* OrderedByDateDesc with the order of `asc`
OrderedByDateAsc(order) ==
    \A i, j \in 1..Len(order) :
       i < j => encounters[order[i]].encounterDate
                   <= encounters[order[j]].encounterDate

\* orderBy: { encounterDate: 'desc' }
OrderedByDateDesc(order) ==
    \A i, j \in 1..Len(order) :
       i < j => encounters[order[i]].encounterDate
                   >= encounters[order[j]].encounterDate

\* the orders in which findMany may return the rows: every row once, sorted;
\* the database is free in the order of rows with the same encounterDate
FindManyOrders ==
    {order \in [1..Len(encounters) -> 1..Len(encounters)] :
        /\ \A i, j \in 1..Len(encounters) : order[i] = order[j] => i = j
        /\ OrderedByDateDesc(order)}

\* one element of `result`, serialized: `x || undefined` leaves the key out
ListItem(e) ==
    LET always == {"id", "status", "patientName", "clinicianName", "encounterDate"}
        maybe == {k \in {"audioUrl", "transcript", "soapSubjective",
                         "soapObjective", "soapAssessment", "soapPlan"} :
                     ~Falsy(e[k])}
    IN [k \in always \cup maybe |->
           IF k = "patientName" THEN e.patient.name
           ELSE IF k = "clinicianName" THEN e.clinician.name
           ELSE IF k = "encounterDate" THEN ToISOString(e.encounterDate)
           ELSE IF k \in maybe THEN e[k][1]
           ELSE e[k]]

ListEncountersJson ==
    /\ \E order \in FindManyOrders :
          response' = [op |-> "list", code |-> 200,
                       body |-> [i \in 1..Len(order) |->
                                   ListItem(WithRelations(encounters[order[i]]))]]
    /\ UNCHANGED <<clinicians, patients, encounters, now, inflight>>

\* creates, updates and the list, with room for two encounters
NextList ==
    \/ Tick
    \/ \E c \in Clients, body \in CreateBodiesFrame : CreateArrivesMany(c, body)
    \/ \E c \in Clients : CreateInsertClinician(c)
    \/ \E c \in Clients : CreateFindPatient(c)
    \/ \E c \in Clients : CreateInsertPatient(c)
    \/ \E c \in Clients : CreateInsertEncounter(c)
    \/ \E id \in EncIdsMany : SignEncounter(id)
    \/ \E id \in EncIdsMany, body \in FrontEndAttachBodies : PatchEncounter(id, body)
    \/ ListEncountersJson

SpecList == Init /\ [][NextList]_vars

---------------------------------------------------------------------------
(* Vocabulary of the properties *)

Stored == 1..Len(encounters)

NoteFields == {"soapSubjective", "soapObjective", "soapAssessment", "soapPlan"}

NotePopulated(e) == \A f \in NoteFields : e[f] # Null
NoteAbsent(e) == \A f \in NoteFields : e[f] = Null

\* the status codes the error taxonomy gives InvalidState
InvalidStateCodes == {400, 409}

\* the status codes the error taxonomy gives UpstreamFailure
UpstreamFailureCodes == {500, 502}

\* the status code the error taxonomy gives NotFound
NotFoundCodes == {404}

\* the status code the error taxonomy gives ValidationError
ValidationErrorCodes == {400}

\* the invariants of a stored encounter that a partial update can break:
\* the note is whole or absent, and a signed encounter has a whole note
RowInvariant(e) ==
    /\ NotePopulated(e) \/ NoteAbsent(e)
    /\ e.status = "SIGNED" => NotePopulated(e)

\* a create request without a usable patient identifier
NoPatientId(body) == ~Has(body, "patientId") \/ body.patientId = ""

\* the three edges of the lifecycle
LifecycleEdges ==
    { <<"RECORDING", "PROCESSING">>, <<"PROCESSING", "REVIEW">>,
      <<"REVIEW", "SIGNED">> }

\* some generate-soap step of client c on encounter id
GenerateSoapStep(c, id) ==
    \/ GenerateSoapBegin(c, id)
    \/ /\ inflight[c].op = "generate-soap" /\ inflight[c].id = id
       /\ \/ \E r \in AiResults : GenerateSoapFinish(c, r)
          \/ GenerateSoapUpstreamError(c)

---------------------------------------------------------------------------
(* Properties *)

\* C1: in every step, the status of every stored encounter is at least its
\* old status in the order RECORDING < PROCESSING < REVIEW < SIGNED.
StatusNeverRegresses ==
    [][\A id \in Stored :
          Rank(encounters'[id].status) >= Rank(encounters[id].status)]_vars

\* C2: a step taken from a state in which an encounter is SIGNED leaves its
\* transcript, its four note fields and its status as they are.
SignedIsTerminal ==
    [][\A id \in Stored :
          encounters[id].status = "SIGNED" =>
             /\ encounters'[id].status = "SIGNED"
             /\ encounters'[id].transcript = encounters[id].transcript
             /\ \A f \in NoteFields : encounters'[id][f] = encounters[id][f]]_vars

\* C3: for every stored encounter, signedAt is set exactly when the status
\* is SIGNED.
SignedAtIffSigned ==
    \A id \in Stored :
        (encounters[id].signedAt # Null) <=> (encounters[id].status = "SIGNED")

\* C4: for every stored encounter, the four note fields are all present or
\* all absent.
NoteAllOrNothing ==
    \A id \in Stored : NotePopulated(encounters[id]) \/ NoteAbsent(encounters[id])

\* C5: every change of an encounter's status is one of the three edges
\* RECORDING->PROCESSING, PROCESSING->REVIEW, REVIEW->SIGNED.
OnlyLifecycleEdges ==
    [][\A id \in Stored :
          encounters'[id].status # encounters[id].status =>
             <<encounters[id].status, encounters'[id].status>> \in LifecycleEdges]_vars

\* C6: Sign on an encounter that is already SIGNED answers InvalidState and
\* changes no field of the encounter, signedAt included.
ReSignRejected ==
    [][\A id \in Stored :
          (SignEncounter(id) /\ encounters[id].status = "SIGNED") =>
             /\ response'.code \in InvalidStateCodes
             /\ encounters'[id] = encounters[id]]_vars

\* C7: Sign on an encounter whose four note fields are not all populated
\* answers InvalidState and leaves its status and signedAt unchanged.
SignWithoutNoteRejected ==
    [][\A id \in Stored :
          (SignEncounter(id) /\ ~NotePopulated(encounters[id])) =>
             /\ response'.code \in InvalidStateCodes
             /\ encounters'[id].status = encounters[id].status
             /\ encounters'[id].signedAt = encounters[id].signedAt]_vars

\* C8: once signedAt of an encounter is set, no step changes its value.
SignedAtSetOnce ==
    [][\A id \in Stored :
          encounters[id].signedAt # Null =>
             encounters'[id].signedAt = encounters[id].signedAt]_vars

\* C9: generate-soap on a stored encounter whose transcript is absent or
\* empty answers 400, leaves no call to the AI service in flight and leaves
\* the encounter table unchanged.
GenerateWithoutTranscriptRejected ==
    [][\A c \in Clients, id \in Stored :
          ( /\ GenerateSoapBegin(c, id)
            /\ encounters[id].transcript \in {Null, Some("")} ) =>
             /\ response'.code = 400
             /\ inflight' = inflight
             /\ encounters' = encounters]_vars

\* C9 witness: the 400 has been sent for a stored encounter whose transcript
\* is the empty string (400 is sent by generate-soap only).
GenerateWithoutTranscriptWitness ==
    /\ response = [op |-> "generate-soap", code |-> 400]
    /\ \E id \in Stored : encounters[id].transcript = Some("")
    /\ \A c \in Clients : inflight[c] = Idle

\* C10: generate-soap on an encounter that is SIGNED answers InvalidState
\* without calling the AI service, and no generate-soap step changes the
\* note fields, the diagnosis codes or the status of a SIGNED encounter.
GenerateOnSignedRejected ==
    [][\A c \in Clients, id \in Stored :
          encounters[id].status = "SIGNED" =>
             /\ GenerateSoapBegin(c, id) =>
                   /\ response'.code \in InvalidStateCodes
                   /\ inflight' = inflight
             /\ GenerateSoapStep(c, id) =>
                   /\ encounters'[id].status = "SIGNED"
                   /\ encounters'[id].icd10Codes = encounters[id].icd10Codes
                   /\ \A f \in NoteFields :
                         encounters'[id][f] = encounters[id][f]]_vars

\* C11: when the call to the AI service fails, generate-soap answers with an
\* upstream failure, the handler ends (no call stays in flight, none is sent
\* again) and the encounter table is exactly as before.
GenerateUpstreamFailureAtomic ==
    [][\A c \in Clients :
          GenerateSoapUpstreamError(c) =>
             /\ response'.op = "generate-soap"
             /\ response'.code \in UpstreamFailureCodes
             /\ inflight'[c] = Idle
             /\ encounters' = encounters]_vars

\* C11 witness: the failure has been answered for an encounter that has its
\* transcript and is still in PROCESSING without a note (a 500 of generate-soap
\* comes from the failed AI call: the update of a row that was read cannot
\* fail, rows are never deleted).
GenerateUpstreamFailureWitness ==
    /\ response = [op |-> "generate-soap", code |-> 500]
    /\ \A c \in Clients : inflight[c] = Idle
    /\ \E id \in Stored :
          /\ encounters[id].transcript = Some("t1")
          /\ encounters[id].status = "PROCESSING"
          /\ NoteAbsent(encounters[id])

\* C12: a generate-soap that succeeds stores the four note fields and the
\* diagnosis codes of the AI result in one step, and the status afterwards
\* is REVIEW if it was RECORDING or PROCESSING and is the old status if that
\* was REVIEW or SIGNED.
GenerateSuccessEffect ==
    [][\A c \in Clients, r \in AiResults :
          (GenerateSoapFinish(c, r) /\ inflight[c].id \in Stored) =>
             LET old == encounters[inflight[c].id]
                 new == encounters'[inflight[c].id] IN
             /\ new.soapSubjective = Some(r.soap.subjective)
             /\ new.soapObjective = Some(r.soap.objective)
             /\ new.soapAssessment = Some(r.soap.assessment)
             /\ new.soapPlan = Some(r.soap.plan)
             /\ new.icd10Codes = r.icd10_codes
             /\ new.status = IF Rank(old.status) < Rank("REVIEW")
                             THEN "REVIEW" ELSE old.status]_vars

\* C13: the front end's Attach Transcript on an encounter that is not SIGNED
\* stores the transcript, moves RECORDING to PROCESSING and leaves a status
\* of PROCESSING or REVIEW as it is.
AttachTranscriptEffect ==
    [][\A id \in Stored, body \in FrontEndAttachBodies :
          (PatchEncounter(id, body) /\ encounters[id].status # "SIGNED") =>
             /\ encounters'[id].transcript = body.transcript
             /\ encounters'[id].status =
                   IF encounters[id].status = "RECORDING"
                   THEN "PROCESSING" ELSE encounters[id].status]_vars

\* C14: Attach Transcript on an encounter that is SIGNED answers InvalidState
\* and leaves the stored transcript and status unchanged.
AttachOnSignedRejected ==
    [][\A id \in Stored, body \in AttachBodies :
          (PatchEncounter(id, body) /\ encounters[id].status = "SIGNED") =>
             /\ response'.code \in InvalidStateCodes
             /\ encounters'[id].transcript = encounters[id].transcript
             /\ encounters'[id].status = "SIGNED"]_vars

\* C15: Attach Transcript, generate-soap, sign and the two exports, addressed
\* to an id with no encounter, answer 404 and leave the three tables and the
\* requests in flight as they are.
UnknownIdNotFound ==
    [][\A id \in EncIds \ Stored :
          ( \/ \E body \in AttachBodies : PatchEncounter(id, body)
            \/ \E c \in Clients : GenerateSoapBegin(c, id)
            \/ SignEncounter(id)
            \/ GetFhir(id)
            \/ \E c \in Clients : FhirExportBegin(c, id) ) =>
             /\ response'.code \in NotFoundCodes
             /\ UNCHANGED <<clinicians, patients, encounters, inflight>>]_vars

\* C16: the step that completes a create appends exactly one encounter, with
\* an id no stored encounter has, status RECORDING, no transcript, no note
\* field, no signedAt and no codes, whose patient is the row with the
\* request's patientId and whose clinician is the row with the request's
\* clinicianId (the default clinician if the request names none); it answers
\* 201 and leaves every encounter stored before as it was.
CreateAddsOneEncounter ==
    [][\A c \in DOMAIN inflight :
          CreateInsertEncounter(c) =>
             LET body == inflight[c].body
                 new == encounters'[Len(encounters')] IN
             /\ response' = [op |-> "create", code |-> 201]
             /\ Len(encounters') = Len(encounters) + 1
             /\ \A id \in Stored : encounters'[id] = encounters[id]
             /\ \A id \in Stored : encounters[id].id # new.id
             /\ new.status = "RECORDING"
             /\ new.transcript = Null
             /\ NoteAbsent(new)
             /\ new.signedAt = Null
             /\ new.icd10Codes = <<>>
             /\ new.patientId = body.patientId
             /\ new.clinicianId = ClinicianIdOf(body)
             /\ \E p \in patients' : p.id = new.patientId
             /\ \E d \in clinicians' : d.id = new.clinicianId]_vars

\* a second encounter was just created, for a clinician named in the
\* request, next to a first one that is signed and carries a transcript
CreateAddsOneEncounterWitness ==
    /\ response = [op |-> "create", code |-> 201]
    /\ Len(encounters) = 2
    /\ encounters[1].status = "SIGNED"
    /\ encounters[1].transcript = Some("t1")
    /\ encounters[1].clinicianId = DemoClinician
    /\ encounters[2].status = "RECORDING"
    /\ encounters[2].clinicianId = "c2"

\* C17: no step of a create whose body has an empty or no patientId writes
\* the clinician, patient or encounter table, and the step that ends such a
\* create answers 400.
CreateWithoutPatientIdRejected ==
    [][\A c \in Clients :
          ( /\ inflight[c].op = "create"
            /\ NoPatientId(inflight[c].body)
            /\ \/ CreateInsertClinician(c) \/ CreateFindPatient(c)
               \/ CreateInsertPatient(c) \/ CreateInsertEncounter(c) ) =>
             /\ UNCHANGED <<clinicians, patients, encounters>>
             /\ inflight'[c] = Idle => response'.code \in ValidationErrorCodes]_vars

\* C18: no step changes the patientId or the clinicianId of a stored
\* encounter.
ReferencesNeverChange ==
    [][\A id \in Stored :
          /\ encounters'[id].patientId = encounters[id].patientId
          /\ encounters'[id].clinicianId = encounters[id].clinicianId]_vars

\* an encounter created for patient p2 and clinician c2 has been patched,
\* given a note, signed and exported, and still points at p2 and c2
ReferencesNeverChangeWitness ==
    /\ response = [op |-> "fhir-export", code |-> 200]
    /\ \E id \in Stored :
          /\ encounters[id].patientId = "p2"
          /\ encounters[id].clinicianId = "c2"
          /\ encounters[id].transcript = Some("t2")
          /\ NotePopulated(encounters[id])
          /\ encounters[id].status = "SIGNED"
          /\ encounters[id].fhirBundleId = Some("b1")

\* C19: a PATCH of a well-formed encounter whose data would leave the row
\* with a partial note, or SIGNED without a whole note, is answered with an
\* error and leaves the encounter table as it was.
InvalidPartialUpdateRejected ==
    [][\A id \in Stored, body \in PatchBodies :
          ( /\ PatchEncounter(id, body)
            /\ RowInvariant(encounters[id])
            /\ ~UpdateFails(id, PatchUpdateData(body))
            /\ ~RowInvariant(ApplyUpdate(encounters[id],
                                         PatchUpdateData(body))) ) =>
             /\ encounters' = encounters
             /\ response'.code # 200]_vars

\* C20: when the write of an Attach Transcript that arrived before the sign
\* finds the encounter SIGNED, the attach is answered InvalidState and the
\* transcript and the status of the signed encounter stay as they are.
AttachOvertakenBySignRejected ==
    [][\A c \in Clients :
          LET id == inflight[c].id IN
          ( /\ PatchCommits(c)
            /\ id \in Stored
            /\ encounters[id].status = "SIGNED" ) =>
             /\ response'.code \in InvalidStateCodes
             /\ encounters'[id].transcript = encounters[id].transcript
             /\ encounters'[id].status = "SIGNED"]_vars

\* C21: the row a generate-soap writes is a row that the front end's attach
\* and the generate-soap leave when run one after the other: either the
\* generate-soap run alone on the row it finds at its write (attach first),
\* or a row that running the attach once more does not change (attach last).
AttachAndGenerateSerialized ==
    [][\A c \in Clients, r \in AiResults :
          (GenerateSoapFinish(c, r) /\ inflight[c].id \in Stored) =>
             LET old == encounters[inflight[c].id]
                 new == encounters'[inflight[c].id] IN
             \/ \E r2 \in AiResults : new = GenerateAlone(old, r2)
             \/ \E body \in FrontEndAttachBodies :
                   new = ApplyUpdate(new, PatchUpdateData(body))]_vars

\* C22: every generate-soap that waits for the AI service is eventually
\* answered: its client becomes idle again.
GenerateEventuallyResponds ==
    \A c \in Clients :
       (inflight[c].op = "generate-soap") ~> (inflight[c] = Idle)

\* the step leaves every encounter but id, and every patient and clinician,
\* as it was
OthersUnchanged(id) ==
    /\ UNCHANGED <<patients, clinicians>>
    /\ Len(encounters') = Len(encounters)
    /\ \A j \in Stored \ {id} : encounters'[j] = encounters[j]

\* C23: a step of PATCH, generate-soap, sign, fhir or fhir-export addressed
\* to encounter id leaves every other encounter and every patient and
\* clinician row unchanged.
EncounterOperationsFramed ==
    [][/\ \A id \in EncIdsMany :
            ( \/ \E body \in PatchBodiesFrame : PatchEncounter(id, body)
              \/ SignEncounter(id)
              \/ GetFhir(id)
              \/ \E c \in Clients : GenerateSoapBegin(c, id)
              \/ \E c \in Clients : FhirExportBegin(c, id) ) =>
               OthersUnchanged(id)
       /\ \A c \in Clients :
            ( \/ \E r \in AiResults : GenerateSoapFinish(c, r)
              \/ GenerateSoapUpstreamError(c)
              \/ \E fhirId \in FhirIds : FhirExportFinish(c, fhirId)
              \/ FhirExportUpstreamError(c) ) =>
               OthersUnchanged(inflight[c].id)]_vars

\* the first encounter has been given a transcript and a note, signed and
\* exported, and the second is still as it was created
EncounterOperationsFramedWitness ==
    /\ response = [op |-> "fhir-export", code |-> 200]
    /\ Len(encounters) = 2
    /\ encounters[1].status = "SIGNED"
    /\ encounters[1].transcript # Null
    /\ NotePopulated(encounters[1])
    /\ encounters[1].fhirBundleId = Some("b1")
    /\ encounters[2] = NewEncounter(2, encounters[2].clinicianId,
                                     encounters[2].patientId)

\* the last response is a bundle
Exported == response.op = "fhir" /\ response.code = 200

\* the encounter the bundle of the last response was made of
ExportedId == response.body.entry[3].resource.id[2]

\* C25: every bundle has resourceType Bundle, type collection and exactly
\* four entries: Patient, Practitioner, Encounter, Composition, in this order.
BundleShape ==
    Exported =>
       /\ response.body.resourceType = "Bundle"
       /\ response.body.type = "collection"
       /\ Len(response.body.entry) = 4
       /\ [i \in 1..4 |-> response.body.entry[i].resource.resourceType]
             = <<"Patient", "Practitioner", "Encounter", "Composition">>

\* a bundle of an encounter without note, of a patient with a one-token name
BundleShapeWitness ==
    /\ Exported
    /\ NoteAbsent(encounters[ExportedId])
    /\ \E p \in patients : p.name = Cher

\* C26: the Encounter resource of a bundle has status finished exactly when
\* the encounter is SIGNED and in-progress otherwise, and class code AMB.
EncounterStatusMapped ==
    Exported =>
       LET er == response.body.entry[3].resource IN
       /\ er.status = IF encounters[ExportedId].status = "SIGNED"
                      THEN "finished" ELSE "in-progress"
       /\ er.class.code = "AMB"

\* a bundle of an encounter in REVIEW
EncounterStatusMappedWitness ==
    /\ Exported
    /\ encounters[ExportedId].status = "REVIEW"
    /\ response.body.entry[3].resource.status = "in-progress"

\* C27: the period of the Encounter resource starts at the encounter's
\* encounterDate and ends at signedAt when there is one, and at the time of
\* the export when there is none.
PeriodFromEncounter ==
    [][\A id \in Stored :
          (GetFhirJson(id) /\ response'.code = 200) =>
             LET period == response'.body.entry[3].resource.period IN
             /\ period.start = ToISOString(encounters[id].encounterDate)
             /\ period.end = IF encounters[id].signedAt # Null
                             THEN ToISOString(encounters[id].signedAt[1])
                             ELSE ToISOString(now)]_vars

\* a bundle made after the signing: the period ends at signedAt, the bundle
\* is stamped later
PeriodFromEncounterWitness ==
    /\ Exported
    /\ encounters[ExportedId].signedAt = Some(0)
    /\ response.body.timestamp = ToISOString(1)
    /\ response.body.entry[3].resource.period.end = ToISOString(0)

\* C28: the Encounter resource of a bundle has no key reasonCode when the
\* encounter has no codes; when it has, reasonCode is one entry whose codings
\* are the codes in their order, each under the ICD-10 system and displayed
\* as the code.
ReasonCodeFromCodes ==
    Exported =>
       LET er == response.body.entry[3].resource
           codes == encounters[ExportedId].icd10Codes IN
       IF codes = <<>>
       THEN "reasonCode" \notin DOMAIN er
       ELSE /\ "reasonCode" \in DOMAIN er
            /\ Len(er.reasonCode) = 1
            /\ DOMAIN er.reasonCode[1] = {"coding"}
            /\ Len(er.reasonCode[1].coding) = Len(codes)
            /\ \A i \in 1..Len(codes) :
                  er.reasonCode[1].coding[i] =
                     [ system |-> "http://hl7.org/fhir/sid/icd-10-cm",
                       code |-> codes[i], display |-> codes[i] ]

\* a bundle of an encounter without codes
ReasonCodeFromCodesWitness ==
    /\ Exported
    /\ encounters[ExportedId].icd10Codes = <<>>
    /\ "reasonCode" \notin DOMAIN response.body.entry[3].resource

WithoutExportTime(bundle, e) ==
    [bundle EXCEPT
        !.timestamp = Null,
        !.entry[4].resource.date = Null,
        !.entry[3].resource.period.end = IF e.signedAt = Null THEN Null ELSE @]

SectionsWith(texts) ==
    [i \in 1..4 |->
        [ title |-> <<"Subjective", "Objective", "Assessment", "Plan">>[i],
          code |-> [text |-> <<"Patient symptoms and history",
                               "Physical exam and vitals", "Diagnoses",
                               "Treatment plan">>[i]],
          text |-> [div |-> <<"<div>", texts[i], "</div>">>] ]]

NoteOf(e) == <<e.soapSubjective, e.soapObjective, e.soapAssessment, e.soapPlan>>

\* C29: the Composition of a bundle has status final, LOINC code 34108-1 and
\* the four sections Subjective, Objective, Assessment, Plan, the text of
\* each the note field in a div, or N/A in a div when the field is null.
CompositionSections ==
    Exported =>
       LET cr == response.body.entry[4].resource
           note == NoteOf(encounters[ExportedId]) IN
       /\ cr.status = "final"
       /\ cr.type.coding[1].system = "http://loinc.org"
       /\ cr.type.coding[1].code = "34108-1"
       /\ cr.section = SectionsWith([i \in 1..4 |->
                          IF note[i] = Null THEN "N/A" ELSE note[i][1]])

\* C29 as amended: ... or N/A in a div when the field is null or the empty
\* string.
CompositionSectionsFalsy ==
    Exported =>
       LET cr == response.body.entry[4].resource
           note == NoteOf(encounters[ExportedId]) IN
       /\ cr.status = "final"
       /\ cr.type.coding[1].system = "http://loinc.org"
       /\ cr.type.coding[1].code = "34108-1"
       /\ cr.section = SectionsWith([i \in 1..4 |->
                          IF Falsy(note[i]) THEN "N/A" ELSE note[i][1]])

\* a bundle of an encounter in RECORDING whose note has an empty field, a
\* field with text and two null fields
CompositionSectionsWitness ==
    /\ Exported
    /\ encounters[ExportedId].status = "RECORDING"
    /\ encounters[ExportedId].soapSubjective = Some("")
    /\ encounters[ExportedId].soapObjective = Some("o1")
    /\ encounters[ExportedId].soapPlan = Null

\* white space as String.prototype.trim and /\s+/ know it
Whitespace == {" ", "\t", "\n", "\r"}

\* the tokens of a string split on white space
RECURSIVE WhitespaceTokens(_)
WhitespaceTokens(str) ==
    IF str = <<>> THEN <<>>
    ELSE IF str[1] \in Whitespace THEN WhitespaceTokens(Tail(str))
    ELSE LET n == CHOOSE k \in 1..Len(str) :
                    /\ \A j \in 1..k : str[j] \notin Whitespace
                    /\ k = Len(str) \/ str[k + 1] \in Whitespace
         IN <<SubSeq(str, 1, n)>> \o WhitespaceTokens(SubSeq(str, n + 1, Len(str)))

\* C30: the name of the Patient resource has as its one given name the
\* first token of the patient's display name split on white space, and as
\* family name the last token.
PatientNameTokens ==
    Exported =>
       \A p \in patients :
          LET tokens == WhitespaceTokens(p.name)
              name == response.body.entry[1].resource.name[1] IN
          tokens # <<>> =>
             /\ name.given = <<tokens[1]>>
             /\ name.family = tokens[Len(tokens)]

\* C31: the name of the Practitioner resource has as family name the last
\* token of the clinician's display name split on white space, as its one
\* given name the tokens before it joined by single blanks, and the prefix
\* list ["Dr."].
PractitionerNameTokens ==
    Exported =>
       \A d \in clinicians :
          LET tokens == WhitespaceTokens(d.name)
              name == response.body.entry[2].resource.name[1] IN
          tokens # <<>> =>
             /\ name.family = tokens[Len(tokens)]
             /\ name.given = <<Join(SliceButLast(tokens), " ")>>
             /\ name.prefix = <<"Dr.">>

\* the MRN entry of a Patient resource
MrnIdentifier(mrn) == [system |-> "http://hospital.example.org/mrn", value |-> mrn]

\* C32: the identifier list of the Patient resource is the one MRN entry
\* when the patient's mrn is not null, and is empty when it is null.
PatientIdentifierFromMrn ==
    Exported =>
       \A p \in patients :
          response.body.entry[1].resource.identifier =
             IF p.mrn # Null THEN <<MrnIdentifier(p.mrn[1])>> ELSE <<>>

\* C32 as amended: the identifier list of the Patient resource is the one
\* MRN entry when the patient's mrn is a non-empty string, and is empty when
\* it is null or the empty string.
PatientIdentifierFromNonEmptyMrn ==
    Exported =>
       \A p \in patients :
          response.body.entry[1].resource.identifier =
             IF ~Falsy(p.mrn) THEN <<MrnIdentifier(p.mrn[1])>> ELSE <<>>

\* a bundle of a patient whose mrn is the empty string
PatientIdentifierWitness ==
    /\ Exported
    /\ \E p \in patients : p.mrn = Some("")
    /\ response.body.entry[1].resource.identifier = <<>>

\* C33: the ids of the four resources are patient-, practitioner-,
\* encounter- and composition- followed by the id of the row, and the five
\* references in the Encounter and the Composition are the resource type,
\* a slash and the id of the entry of that type in the same bundle.
IdsAndReferences ==
    Exported =>
       LET res == [i \in 1..4 |-> response.body.entry[i].resource]
           e == encounters[ExportedId] IN
       /\ res[1].id = Template("patient-", e.patientId)
       /\ res[2].id = Template("practitioner-", e.clinicianId)
       /\ res[3].id = Template("encounter-", e.id)
       /\ res[4].id = Template("composition-", e.id)
       /\ res[3].subject.reference = Template("Patient/", res[1].id)
       /\ Len(res[3].participant) = 1
       /\ res[3].participant[1].individual.reference
             = Template("Practitioner/", res[2].id)
       /\ res[4].subject.reference = Template("Patient/", res[1].id)
       /\ Len(res[4].author) = 1
       /\ res[4].author[1].reference = Template("Practitioner/", res[2].id)
       /\ res[4].encounter.reference = Template("Encounter/", res[3].id)

\* a bundle of an encounter of the default clinician
IdsAndReferencesWitness ==
    /\ Exported
    /\ encounters[ExportedId].clinicianId = DemoClinician
    /\ response.body.entry[4].resource.author[1].reference
          = Template("Practitioner/", Template("practitioner-", DemoClinician))

\* C34: a patient or clinician row, once stored, stays as it is; a create
\* that finds a row with the patient id of its request goes on with that
\* row and inserts none; and no table ever holds two rows with one id.
IdentityRecordsReused ==
    [][/\ \A p \in patients : p \in patients'
       /\ \A d \in clinicians : d \in clinicians'
       /\ \A p, q \in patients' : p.id = q.id => p = q
       /\ \A d, f \in clinicians' : d.id = f.id => d = f
       /\ \A c \in DOMAIN inflight :
             ( /\ CreateFindPatient(c)
               /\ \E p \in patients : p.id = inflight[c].body.patientId ) =>
                /\ inflight'[c].patient[1] \in patients
                /\ inflight'[c].pc = "insertEncounter"
                /\ patients' = patients]_vars

\* after a first encounter for patient p1, stored as New Patient without
\* MRN, a create that names p1 as John Smith with an MRN has found the
\* stored row
IdentityRecordsReusedWitness ==
    /\ Len(encounters) = 1
    /\ \E c \in DOMAIN inflight :
          /\ inflight[c].op = "create"
          /\ inflight[c].pc = "insertEncounter"
          /\ inflight[c].body.patientId = "p1"
          /\ inflight[c].body.patientName = JohnSmith
          /\ inflight[c].patient # Null
          /\ inflight[c].patient[1].name = NewPatient
          /\ inflight[c].patient[1].mrn = Null
          /\ inflight[c].patient[1] \in patients

\* C39: a create in flight never ends in an error: the step that ends it
\* answers 201.
OverlappingCreatesSucceed ==
    [][\A c \in DOMAIN inflight :
          (inflight[c].op = "create" /\ inflight'[c] = Idle) =>
             response' = [op |-> "create", code |-> 201]]_vars

\* C35: the list answers with one element for every stored encounter and no
\* other, each encounter once, and an element never stands in front of one
\* with a later encounterDate.
ListCompleteAndNewestFirst ==
    [][ListEncountersJson =>
          LET body == response'.body IN
          /\ response'.code = 200
          /\ Len(body) = Len(encounters)
          /\ \A id \in Stored :
                Cardinality({i \in 1..Len(body) : body[i].id = id}) = 1
          /\ \A i, j \in 1..Len(body) :
                i < j => encounters[body[i].id].encounterDate
                            >= encounters[body[j].id].encounterDate
          /\ \A i \in 1..Len(body) :
                body[i].encounterDate
                   = ToISOString(encounters[body[i].id].encounterDate)]_vars

\* the list of two encounters, the second created later than the first and
\* the first signed since: the second comes first
ListCompleteAndNewestFirstWitness ==
    /\ response.op = "list"
    /\ Len(encounters) = 2
    /\ encounters[1].encounterDate < encounters[2].encounterDate
    /\ encounters[1].status = "SIGNED"
    /\ Len(response.body) = 2
    /\ response.body[1].id = 2
    /\ response.body[1].status = "RECORDING"
    /\ response.body[2].id = 1
    /\ response.body[2].status = "SIGNED"

\* C36: the bundle the route answers with is the bundle the generateFhirBundle
\* of fhir.test.ts makes of the same rows at the same time, both serialized.
TestCopyAgrees ==
    [][\A id \in Stored :
          (GetFhirJson(id) /\ response'.code = 200) =>
             response'.body =
                JsonBundle(TestCopyGenerateFhirBundle(WithRelations(encounters[id]),
                                                      now))]_vars

\* C37: when a generate-soap commits its note, the transcript the row then
\* holds is the transcript that was sent to the AI service.
NotePairedWithItsTranscript ==
    [][\A c \in Clients, r \in AiResults :
          (GenerateSoapFinish(c, r) /\ response'.code = 200) =>
             encounters'[inflight[c].id].transcript
                = Some(inflight[c].transcript)]_vars

\* C38: a sign that answers success is the first to do so on its encounter:
\* the row it found had not been signed by an earlier call.
SignSucceedsOnce ==
    [][\A id \in Stored :
          (SignEncounter(id) /\ response'.code = 200) =>
             encounters[id].signedAt = Null]_vars

\* C40: of the steps of fhir-export only the one that follows the document
\* server's acceptance changes an encounter, and it changes the fhirBundleId
\* of the addressed encounter to the id the server returned and nothing
\* else; the read, a rejection and a thrown call leave every encounter as
\* it was.
FhirExportWritesOnlyReference ==
    [][/\ \A c \in Clients, id \in EncIds :
             FhirExportBegin(c, id) => encounters' = encounters
       /\ \A c \in Clients :
             FhirExportUpstreamError(c) => encounters' = encounters
       /\ \A c \in Clients, fhirId \in FhirIds :
             FhirExportFinish(c, fhirId) =>
                /\ response'.code = 200
                /\ encounters' =
                      [encounters EXCEPT ![inflight[c].id].fhirBundleId =
                                            Some(fhirId)]]_vars

\* an encounter exported once, with its transcript in place, whose second
\* export the document server has turned down
FhirExportWritesOnlyReferenceWitness ==
    /\ response = [op |-> "fhir-export", code |-> 500]
    /\ \E id \in Stored :
          /\ encounters[id].fhirBundleId = Some("b1")
          /\ encounters[id].transcript = Some("t1")

====
